---- MODULE Spec2Model ----
(***************************************************************************)
(* The tiered conversational memory of IOT-Sadaf-BOT:                      *)
(*   ConversationManager  (src/memory/conversational_memory.py)            *)
(*   ChromaStore          (src/memory/knowledge_base.py)                   *)
(*   ConversationSummarizer (src/memory/llm_summarizer.py)                 *)
(* Every public method of ConversationManager is one action.  External     *)
(* services (the structured LLM call, the Ollama embedding endpoint, the   *)
(* Chroma collection) are nondeterministic inputs of the action.           *)
(***************************************************************************)
EXTENDS Integers, Sequences, FiniteSets, TLC

\* ------------------------------------------------------------------ bounds
MaxBufferSize == 4
MaxSummarySize == 2
MaxCalls == 7
MaxSummarizerCalls == 3
MaxFaultAt == 1
MaxFaults == 1
MaxLongCalls == 8

\* ------------------------------------------------------- program constants
\* The duplicate threshold of _is_duplicate (its default, config.THRESHOLD).
\* Similarity is kept in hundredths: 1 - distance  ~  100 - Distance.
THRESHOLD == 85
\* the capacities config.py ships
BUFFER_SIZE == 10
SUMMARY_SIZE == 5
\* n_results of the two get_relevant_info calls of get_context_for_ai
N_FACTS_CONTEXT == 3
\* list(self.buffer_deque)[-7:]
RECENT_TURNS == 7
SENTINEL == "Error occurred during summarization"

VARIABLES
    buffer_maxlen,        \* deque(maxlen=BUFFER_SIZE).maxlen
    summary_maxlen,       \* deque(maxlen=SUMMARY_SIZE).maxlen
    buffer_deque,         \* Seq of turns, oldest first
    summary_deque,        \* Seq of Context records, index 1 = left end
    experiential_store,   \* documents of collection "experiential_facts"
    personal_store,       \* documents of collection "personal_facts"
    list_experiential,    \* _list_of_experiential_facts_stored_from_conversation
    list_personal,        \* _list_of_personal_facts_stored_from_conversation
    \* ---- observation of the run (no method reads these)
    summarizer_calls,     \* the batches given to summarize_conversation, in order
    offered,              \* ids of the Contexts passed to _store_facts_if_worthy, in order
    n_turns,              \* process_turn calls made
    end_calls,            \* end_conversation calls made
    ended,                \* an end_conversation call has returned
    n_faults,             \* calls during which the embedding service failed
    last,                 \* what the last call did
    driver                \* where conversation_loop is, and how it left its loop

vars == <<buffer_maxlen, summary_maxlen, buffer_deque, summary_deque,
          experiential_store, personal_store, list_experiential, list_personal,
          summarizer_calls, offered, n_turns, end_calls, ended, n_faults, last,
          driver>>

\* the manager and the observation of its calls
manager_vars == <<buffer_maxlen, summary_maxlen, buffer_deque, summary_deque,
                  experiential_store, personal_store, list_experiential, list_personal,
                  summarizer_calls, offered, n_turns, end_calls, ended, n_faults, last>>

\* ------------------------------------------------------------ Optional[List]
None == [some |-> FALSE, items |-> <<>>]
Some(l) == [some |-> TRUE, items |-> l]
\* Python truthiness of an Optional[List]: None and [] are both falsy
Truthy(x) == x.some /\ Len(x.items) > 0

Abs(x) == IF x < 0 THEN -x ELSE x

\* ---------------------------------------------------------------- deque
\* deque.append on a bounded deque: a full deque drops its left end
DequeAppend(d, x, maxlen) ==
    IF maxlen = 0 THEN <<>>
    ELSE IF Len(d) = maxlen THEN Append(Tail(d), x)
    ELSE Append(d, x)

\* append() where appendleft() was meant: the item enters at the right end
DequeAppendLeftAtRight(d, x, maxlen) ==
    IF maxlen = 0 THEN <<>>
    ELSE IF Len(d) = maxlen THEN Append(Tail(d), x)
    ELSE Append(d, x)

\* deque.appendleft on a bounded deque: a full deque drops its right end
DequeAppendLeft(d, x, maxlen) ==
    IF maxlen = 0 THEN <<>>
    ELSE IF Len(d) = maxlen THEN <<x>> \o SubSeq(d, 1, Len(d) - 1)
    ELSE <<x>> \o d

\* a pop that reads the right end and leaves it in the deque
DequePopKeepsItem(d) == [item |-> d[Len(d)], rest |-> d]

\* popleft() where pop() was meant: the left end leaves
DequePopWrongEnd(d) == [item |-> d[1], rest |-> SubSeq(d, 2, Len(d))]

\* deque.pop(): the right end leaves
DequePop(d) == [item |-> d[Len(d)], rest |-> SubSeq(d, 1, Len(d) - 1)]

\* pop() where popleft() was meant: the k right-most items leave, newest first
DequePopRightMany(d, k) ==
    [items |-> [i \in 1..k |-> d[Len(d) + 1 - i]], rest |-> SubSeq(d, 1, Len(d) - k)]

\* [deque.popleft() for _ in range(k)]: the k left-most items, in order
DequePopLeftMany(d, k) == [items |-> SubSeq(d, 1, k), rest |-> SubSeq(d, k + 1, Len(d))]

\* ------------------------------------------------------- embedding service
\* str.strip(): the fact texts are "f1", "f1b", "f2"; " " is whitespace only
Strip(s) == IF s = " " THEN "" ELSE s

\* What the embedding endpoint answers for a text: a point on a line.
\* "f1b" is a rewording of "f1" whose similarity is exactly THRESHOLD.
Embedding(text) ==
    CASE text = "f1"  -> 0
      [] text = "f1b" -> 15
      [] text = "f2"  -> 70
      [] OTHER        -> 100

\* The distance Chroma reports between two documents, in hundredths
Distance(a, b) == Abs(Embedding(a) - Embedding(b))

\* collection.query(query_embeddings=[emb], n_results=1): the index of the closest document
Nearest(coll, text) ==
    CHOOSE i \in 1..Len(coll) :
        \A j \in 1..Len(coll) : Distance(coll[i], text) <= Distance(coll[j], text)

\* ------------------------------------------------------------- ChromaStore
\* the comparison with the threshold written with > instead of >=
IsDuplicateStrict(coll, text, check_fails) ==
    IF check_fails THEN FALSE
    ELSE IF Len(coll) = 0 THEN FALSE
    ELSE 100 - Distance(coll[Nearest(coll, text)], text) > THRESHOLD

\* check_fails: the embedding call or the query inside _is_duplicate raises
IsDuplicate(coll, text, check_fails) ==
    IF check_fails THEN FALSE
    ELSE IF Len(coll) = 0 THEN FALSE
    ELSE LET distance == Distance(coll[Nearest(coll, text)], text)
             similarity == 100 - distance
         IN  similarity >= THRESHOLD

\* a duplicate check that asks the collection for all its documents
DuplicateQueriesFullScan(coll, text, check_fails) ==
    IF check_fails THEN <<>>
    ELSE <<[collection |-> coll, n_results |-> Len(coll),
            documents |-> IF coll = <<>> THEN <<>>
                          ELSE <<coll[Nearest(coll, text)]>>
                               \o SelectSeq(coll, LAMBDA d : d # coll[Nearest(coll, text)])]>>

\* The collection.query requests of one _is_duplicate call that were answered,
\* with the documents returned: one request for n_results=1, none answered when
\* the embedding request or the query raised
DuplicateQueries(coll, text, check_fails) ==
    IF check_fails THEN <<>>
    ELSE <<[collection |-> coll, n_results |-> 1,
            documents |-> IF coll = <<>> THEN <<>> ELSE <<coll[Nearest(coll, text)]>>]>>

\* an add that overwrites the stored fact it duplicates (an upsert)
AddDocumentUpsert(coll, text, check_fails, add_fails) ==
    IF IsDuplicate(coll, text, check_fails)
    THEN [collection |-> [coll EXCEPT ![Nearest(coll, text)] = text],
          result |-> "DUPLICATE_SKIPPED"]
    ELSE IF add_fails
    THEN [collection |-> coll, result |-> "RAISED"]
    ELSE [collection |-> Append(coll, text), result |-> "DOC_ID"]

\* add_fails: the embedding call or collection.add inside add_document raises
AddDocument(coll, text, check_fails, add_fails) ==
    IF IsDuplicate(coll, text, check_fails)
    THEN [collection |-> coll, result |-> "DUPLICATE_SKIPPED"]
    ELSE IF add_fails
    THEN [collection |-> coll, result |-> "RAISED"]
    ELSE [collection |-> Append(coll, text), result |-> "DOC_ID"]

\* ------------------------------------------------------------- Summarizer
\* A Context as the structured LLM call returns it (timestamp left out)
Ctx(summary, entity_relations, experiential_facts, personal_facts) ==
    [summary |-> summary, entity_relations |-> entity_relations,
     experiential_facts |-> experiential_facts, personal_facts |-> personal_facts]

\* The Context built in the except branch of summarize_conversation
SentinelContext == Ctx(SENTINEL, None, None, None)

\* What llm.invoke may do: raise, or return one of these Contexts
LlmContexts ==
    { Ctx(SENTINEL, None, Some(<<"f1">>), Some(<<"f2">>)),
      Ctx("summary", None, Some(<<"f1", " ", "f2">>), Some(<<"f1", "f1b">>)),
      Ctx("summary", Some(<<"e1-r-e2">>), None, Some(<<>>)) }

Replies == [raises : {FALSE}, ctx : LlmContexts] \cup [raises : {TRUE}, ctx : {SentinelContext}]

\* an except branch that returns empty lists where the code returns None
SummarizeConversationEmptyLists(conversation_data, reply) ==
    IF reply.raises THEN Ctx(SENTINEL, Some(<<>>), Some(<<>>), Some(<<>>)) ELSE reply.ctx

\* summarize_conversation: never raises, the except branch returns the sentinel
SummarizeConversation(conversation_data, reply) ==
    IF reply.raises THEN SentinelContext ELSE reply.ctx

\* The fault plan of one call of a ConversationManager method: at most one
\* add_document of the call (its ordinal within the call, 0 = none) meets a failing
\* service, in its duplicate check, in its embedding/insert, or in both.
Ollama ==
    {[check_fail_at |-> 0, add_fail_at |-> 0]}
    \cup UNION { { [check_fail_at |-> k, add_fail_at |-> 0],
                   [check_fail_at |-> 0, add_fail_at |-> k],
                   [check_fail_at |-> k, add_fail_at |-> k] } : k \in 1..MaxFaultAt }

\* the service up for the whole call
NoFault == [check_fail_at |-> 0, add_fail_at |-> 0]

\* the embedding requests of the call m, so far, include a failed one
Faulted(m) ==
    \E i \in 1..Len(m.add_calls) : m.add_calls[i].check_failed \/ m.add_calls[i].add_failed

\* ------------------------------------------------------ ConversationManager
\* The object's fields plus the run's observation, threaded through a call
Self ==
    [buffer_deque |-> buffer_deque, summary_deque |-> summary_deque,
     experiential_store |-> experiential_store, personal_store |-> personal_store,
     list_experiential |-> list_experiential, list_personal |-> list_personal,
     summarizer_calls |-> summarizer_calls, offered |-> offered,
     raised |-> FALSE, n_adds |-> 0,
     appended |-> <<>>, drained |-> <<>>, inserted |-> <<>>, evicted |-> <<>>,
     finals |-> <<>>, summaries |-> <<>>, stored |-> <<>>, add_calls |-> <<>>,
     context |-> <<>>, llm_raised |-> <<>>]

\* the test without strip(): a whitespace-only fact passes
IsWorthyFactNoStrip(fact) == fact # ""

\* `if fact and fact.strip()`
IsWorthyFact(fact) == fact # "" /\ Strip(fact) # ""

\* the add_document calls _store_facts_if_worthy makes for one fact list
FactRequests(facts, store) ==
    IF Truthy(facts)
    THEN LET worthy == SelectSeq(facts.items, IsWorthyFact)
         IN  [i \in 1..Len(worthy) |-> [store |-> store, fact |-> worthy[i]]]
    ELSE <<>>

\* the guard without the comparison with the sentinel text
IsWorthyContextUnguarded(ctx) == TRUE

\* `if ctx and ctx.summary != "Error occurred during summarization"`
IsWorthyContext(ctx) == ctx.summary # SENTINEL

\* all add_document calls of _store_facts_if_worthy(ctx), in program order
StoreRequests(ctx) ==
    IF IsWorthyContext(ctx)
    THEN FactRequests(ctx.experiential_facts, "experiential")
         \o FactRequests(ctx.personal_facts, "personal")
    ELSE <<>>

\* both ChromaStore objects opened on the collection "experiential_facts"
StoreOneFactOneCollection(m, ctx, req, ollama) ==
    LET n == m.n_adds + 1
        coll == m.experiential_store
        check_fails == (n = ollama.check_fail_at)
        add_fails == (n = ollama.add_fail_at)
        r == AddDocument(coll, req.fact, check_fails, add_fails)
        logged == [m EXCEPT !.n_adds = n,
                            !.add_calls = Append(@, [ctx |-> ctx, store |-> req.store,
                                                     text |-> req.fact, before |-> coll,
                                                     after |-> r.collection,
                                                     result |-> r.result,
                                                     check_failed |-> check_fails,
                                                     add_failed |-> add_fails,
                                                     queries |-> DuplicateQueries(
                                                        coll, req.fact, check_fails)])]
    IN  IF r.result = "RAISED" THEN [logged EXCEPT !.raised = TRUE]
        ELSE IF req.store = "experiential"
        THEN [logged EXCEPT !.experiential_store = r.collection,
                            !.list_experiential = Append(@, req.fact)]
        ELSE [logged EXCEPT !.experiential_store = r.collection,
                            !.list_personal = Append(@, req.fact)]

\* one add_document call followed by the append to the audit list
StoreOneFact(m, ctx, req, ollama) ==
    LET n == m.n_adds + 1
        coll == IF req.store = "experiential" THEN m.experiential_store ELSE m.personal_store
        check_fails == (n = ollama.check_fail_at)
        add_fails == (n = ollama.add_fail_at)
        r == AddDocument(coll, req.fact, check_fails, add_fails)
        logged == [m EXCEPT !.n_adds = n,
                            !.add_calls = Append(@, [ctx |-> ctx, store |-> req.store,
                                                     text |-> req.fact, before |-> coll,
                                                     after |-> r.collection,
                                                     result |-> r.result,
                                                     check_failed |-> check_fails,
                                                     add_failed |-> add_fails,
                                                     queries |-> DuplicateQueries(
                                                        coll, req.fact, check_fails)])]
    IN  IF r.result = "RAISED" THEN [logged EXCEPT !.raised = TRUE]
        ELSE IF req.store = "experiential"
        THEN [logged EXCEPT !.experiential_store = r.collection,
                            !.list_experiential = Append(@, req.fact)]
        ELSE [logged EXCEPT !.personal_store = r.collection,
                            !.list_personal = Append(@, req.fact)]

RECURSIVE RunAdds(_, _, _, _)
RunAdds(m, ctx, reqs, ollama) ==
    IF reqs = <<>> \/ m.raised THEN m
    ELSE RunAdds(StoreOneFact(m, ctx, Head(reqs), ollama), ctx, Tail(reqs), ollama)

\* _store_facts_if_worthy(ctx)
StoreFactsIfWorthy(m, ctx, ollama) ==
    RunAdds([m EXCEPT !.offered = Append(@, ctx.id), !.stored = Append(@, ctx)],
            ctx, StoreRequests(ctx), ollama)

\* an eviction only when the window holds more than its capacity
WindowOverFull(d) == Len(d) > summary_maxlen

\* `len(self.summary_deque) == self.summary_deque.maxlen`
WindowFull(d) == Len(d) = summary_maxlen

\* an eviction that writes the oldest digest's facts first and takes the digest
\* out of the window only when the writes went through
HandleSummaryStoreFirst(m, ctx, ollama) ==
    LET m1 == [m EXCEPT !.summary_deque = DequeAppendLeft(@, ctx, summary_maxlen)]
        m2 == [m1 EXCEPT !.inserted = m1.summary_deque]
    IN  IF WindowFull(m2.summary_deque)
        THEN LET p == DequePop(m2.summary_deque)
                 m3 == StoreFactsIfWorthy([m2 EXCEPT !.evicted = <<p.item>>], p.item, ollama)
             IN  IF m3.raised THEN m3 ELSE [m3 EXCEPT !.summary_deque = p.rest]
        ELSE m2

\* _handle_summary(ctx)
HandleSummary(m, ctx, ollama) ==
    LET m1 == [m EXCEPT !.summary_deque = DequeAppendLeft(@, ctx, summary_maxlen)]
        m2 == [m1 EXCEPT !.inserted = m1.summary_deque]
    IN  IF WindowFull(m2.summary_deque)
        THEN LET p == DequePop(m2.summary_deque)
             IN  StoreFactsIfWorthy([m2 EXCEPT !.summary_deque = p.rest,
                                               !.evicted = <<p.item>>],
                                    p.item, ollama)
        ELSE m2

\* a half that rounds up instead of down
HalfSizeRoundedUp(n) == (n + 1) \div 2

\* half_size = len(self.buffer_deque) // 2
HalfSize(n) == n \div 2

\* the summarizer called on a batch; the Context it returns gets the call's ordinal as identity
Summarize(m, data, reply) ==
    LET id == Len(m.summarizer_calls) + 1
        ctx == [id |-> id] @@ SummarizeConversation(data, reply)
    IN  [m |-> [m EXCEPT !.summarizer_calls = Append(@, data), !.summaries = Append(@, ctx),
                         !.llm_raised = Append(@, reply.raises)],
         ctx |-> ctx]

\* a drain that keeps a sentinel digest out of the window
SummarizeAndStoreHalfSkipSentinel(m, reply, ollama) ==
    LET half_size == HalfSize(Len(m.buffer_deque))
    IN  IF half_size = 0 THEN m
        ELSE LET p == DequePopLeftMany(m.buffer_deque, half_size)
                 s == Summarize([m EXCEPT !.buffer_deque = p.rest, !.drained = p.items],
                                p.items, reply)
             IN  IF s.ctx.summary = SENTINEL THEN s.m ELSE HandleSummary(s.m, s.ctx, ollama)

\* _summarize_and_store_half()
SummarizeAndStoreHalf(m, reply, ollama) ==
    LET half_size == HalfSize(Len(m.buffer_deque))
    IN  IF half_size = 0 THEN m
        ELSE LET p == DequePopLeftMany(m.buffer_deque, half_size)
                 s == Summarize([m EXCEPT !.buffer_deque = p.rest, !.drained = p.items],
                                p.items, reply)
             IN  HandleSummary(s.m, s.ctx, ollama)

\* a trigger that fires one turn before the buffer is full
BufferAlmostFull(d) == Len(d) >= buffer_maxlen - 1

\* `len(self.buffer_deque) == self.buffer_deque.maxlen`
BufferFull(d) == Len(d) = buffer_maxlen

\* process_turn(user, ai)
ProcessTurnOp(m, turn, reply, ollama) ==
    LET m1 == [m EXCEPT !.buffer_deque = DequeAppend(@, turn, buffer_maxlen)]
        m2 == [m1 EXCEPT !.appended = m1.buffer_deque]
    IN  IF BufferFull(m2.buffer_deque)
        THEN SummarizeAndStoreHalf(m2, reply, ollama)
        ELSE m2

\* `for ctx in list(self.summary_deque): self._store_facts_if_worthy(ctx)`
RECURSIVE FlushWindow(_, _, _)
FlushWindow(m, ctxs, ollama) ==
    IF ctxs = <<>> \/ m.raised THEN m
    ELSE FlushWindow(StoreFactsIfWorthy(m, Head(ctxs), ollama), Tail(ctxs), ollama)

\* a final summary of the older half of the buffer only
FinalSummaryOfHalf(m, reply, ollama) ==
    IF m.raised \/ Len(m.buffer_deque) = 0 THEN m
    ELSE LET s == Summarize(m, SubSeq(m.buffer_deque, 1, HalfSize(Len(m.buffer_deque))), reply)
         IN  StoreFactsIfWorthy([s.m EXCEPT !.finals = <<s.ctx>>], s.ctx, ollama)

\* `if self.buffer_deque:` summarize the whole buffer and store its facts
FinalSummary(m, reply, ollama) ==
    IF m.raised \/ Len(m.buffer_deque) = 0 THEN m
    ELSE LET s == Summarize(m, m.buffer_deque, reply)
         IN  StoreFactsIfWorthy([s.m EXCEPT !.finals = <<s.ctx>>], s.ctx, ollama)

\* only the buffer is cleared, the window keeps its digests
ClearBufferOnly(m) ==
    IF m.raised THEN m
    ELSE [m EXCEPT !.buffer_deque = <<>>]

\* buffer_deque.clear(); summary_deque.clear()
ClearBoth(m) ==
    IF m.raised THEN m
    ELSE [m EXCEPT !.buffer_deque = <<>>, !.summary_deque = <<>>]

\* end_conversation()
EndConversationOp(m, reply, ollama) ==
    ClearBoth(FinalSummary(FlushWindow(m, m.summary_deque, ollama), reply, ollama))

\* ------------------------------------------------------------ get_context
\* A string is kept as the sequence of its lines; "" is one empty line.
TextLine(text) == [kind |-> "text", text |-> text, turn |-> 0]

Blank == TextLine("")

\* the line of twelve spaces the template has after the first two sections
Pad == TextLine("            ")

MarkerCurrent == [kind |-> "marker", text |-> "--- Current Conversation ---", turn |-> 0]

MarkerSummary == [kind |-> "marker", text |-> "--- Past Conversation Summary ---", turn |-> 0]

MarkerExperiential ==
    [kind |-> "marker", text |-> "--- Relevant Long-Term Experiential Facts ---", turn |-> 0]

MarkerPersonal ==
    [kind |-> "marker", text |-> "--- Relevant Long-Term Personal Facts ---", turn |-> 0]

\* f"User: {u}" and f"AI: {a}"
UserLine(u) == [kind |-> "User: ", text |-> "", turn |-> u]

AiLine(a) == [kind |-> "AI: ", text |-> "", turn |-> a]

\* f"- {doc}"
FactLine(doc) == [kind |-> "- ", text |-> doc, turn |-> 0]

\* "\n".join(parts): the lines of the parts, one empty line for no parts
Join(lines) == IF lines = <<>> THEN <<Blank>> ELSE lines

\* a slice that keeps the oldest k items, l[:k]
FirstItems(l, k) == SubSeq(l, 1, IF Len(l) < k THEN Len(l) ELSE k)

\* l[-k:]
LastItems(l, k) == SubSeq(l, IF Len(l) > k THEN Len(l) - k + 1 ELSE 1, Len(l))

\* "\n".join(f"User: {u}\nAI: {a}" for u, a in list(self.buffer_deque)[-7:])
RecentConv(buffer) ==
    LET turns == LastItems(buffer, RECENT_TURNS)
    IN  Join([i \in 1..(2 * Len(turns)) |->
                 IF i % 2 = 1 THEN UserLine(turns[(i + 1) \div 2].user)
                 ELSE AiLine(turns[i \div 2].ai)])

\* "\n".join(s.summary for s in self.summary_deque)
SummaryMemory(window) == Join([i \in 1..Len(window) |-> TextLine(window[i].summary)])

\* collection.query(query_embeddings=[emb], n_results=k): the k closest documents,
\* closest first
RECURSIVE KNearest(_, _, _)
KNearest(coll, text, k) ==
    IF k = 0 \/ coll = <<>> THEN <<>>
    ELSE LET i == Nearest(coll, text)
             others == [j \in 1..(Len(coll) - 1) |-> IF j < i THEN coll[j] ELSE coll[j + 1]]
         IN  <<coll[i]>> \o KNearest(others, text, k - 1)

\* a get_relevant_info whose except branch re-raises, as get_ollama_embedding does
GetRelevantInfoReraises(coll, query, n_results, fails) ==
    IF fails THEN [raised |-> TRUE, info |-> <<>>]
    ELSE LET docs == KNearest(coll, query, n_results)
         IN  [raised |-> FALSE, info |-> Join([i \in 1..Len(docs) |-> FactLine(docs[i])])]

\* get_relevant_info(query, n_results); fails: the embedding call or the
\* collection query raises, the except branch returns ""
GetRelevantInfo(coll, query, n_results, fails) ==
    IF fails THEN [raised |-> FALSE, info |-> <<Blank>>]
    ELSE LET docs == KNearest(coll, query, n_results)
         IN  [raised |-> FALSE, info |-> Join([i \in 1..Len(docs) |-> FactLine(docs[i])])]

\* the template of get_context_for_ai without its last section
ContextTemplateShort(recent_conv, summary_memory, experiential_info, personal_info) ==
    <<Blank, MarkerCurrent>> \o recent_conv
    \o <<Pad, MarkerSummary>> \o summary_memory
    \o <<Pad, MarkerExperiential>> \o experiential_info
    \o (IF personal_info = <<Blank>> THEN <<Blank>>
        ELSE <<Blank, MarkerPersonal>> \o personal_info \o <<Blank>>)

\* the f-string of get_context_for_ai, line by line
ContextTemplate(recent_conv, summary_memory, experiential_info, personal_info) ==
    <<Blank, MarkerCurrent>> \o recent_conv
    \o <<Pad, MarkerSummary>> \o summary_memory
    \o <<Pad, MarkerExperiential>> \o experiential_info
    \o <<Blank, MarkerPersonal>> \o personal_info
    \o <<Blank>>

\* what the two fact queries of one get_context_for_ai call meet
Chroma == [experiential_fails : BOOLEAN, personal_fails : BOOLEAN]

\* the user's utterance; its embedding is far from "f1", closer to "f1b", closest to "f2"
Queries == {"q"}

\* a get_context_for_ai that keeps in the buffer only the turns it has shown
GetContextForAiTrimming(m, user_query, chroma) ==
    LET recent_conv == RecentConv(m.buffer_deque)
        summary_memory == SummaryMemory(m.summary_deque)
        experiential_info == GetRelevantInfo(m.experiential_store, user_query,
                                             N_FACTS_CONTEXT, chroma.experiential_fails)
        personal_info == GetRelevantInfo(m.personal_store, user_query,
                                         N_FACTS_CONTEXT, chroma.personal_fails)
    IN  [m EXCEPT !.buffer_deque = LastItems(@, RECENT_TURNS),
                  !.context = ContextTemplate(recent_conv, summary_memory,
                                              experiential_info.info, personal_info.info)]

\* get_context_for_ai(user_query): no field of the manager is assigned
GetContextForAi(m, user_query, chroma) ==
    LET recent_conv == RecentConv(m.buffer_deque)
        summary_memory == SummaryMemory(m.summary_deque)
        experiential_info == GetRelevantInfo(m.experiential_store, user_query,
                                             N_FACTS_CONTEXT, chroma.experiential_fails)
        personal_info == GetRelevantInfo(m.personal_store, user_query,
                                         N_FACTS_CONTEXT, chroma.personal_fails)
    IN  IF experiential_info.raised \/ personal_info.raised
        THEN [m EXCEPT !.raised = TRUE]
        ELSE [m EXCEPT !.context = ContextTemplate(recent_conv, summary_memory,
                                                   experiential_info.info, personal_info.info)]

\* ------------------------------------------------------------------ actions
\* the k-th turn of the session: the k-th utterance and the answer to it
Turn(k) == [user |-> k, ai |-> k]

\* What a call can observe of the services: a reply only if it reaches the
\* summarizer, a fault plan only if it reaches the stores.  At most MaxFaults
\* calls of a run meet a failing embedding service.
RepliesRead(consulted) ==
    IF consulted THEN Replies ELSE {[raises |-> TRUE, ctx |-> SentinelContext]}

OllamaRead(consulted) ==
    IF consulted /\ n_faults < MaxFaults THEN Ollama ELSE {NoFault}

\* no query was made, none failed
NoQuery == [experiential_fails |-> FALSE, personal_fails |-> FALSE]

\* one of the two fact queries failed
QueryFaulted(chroma) == chroma.experiential_fails \/ chroma.personal_fails

\* the fact queries may fail while the run's budget of failing calls lasts
ChromaRead == IF n_faults < MaxFaults THEN Chroma ELSE {NoQuery}

Commit(m, op, chroma) ==
    /\ buffer_deque' = m.buffer_deque
    /\ summary_deque' = m.summary_deque
    /\ experiential_store' = m.experiential_store
    /\ personal_store' = m.personal_store
    /\ list_experiential' = m.list_experiential
    /\ list_personal' = m.list_personal
    /\ summarizer_calls' = m.summarizer_calls
    /\ offered' = m.offered
    /\ n_faults' = IF Faulted(m) \/ QueryFaulted(chroma) THEN n_faults + 1 ELSE n_faults
    /\ last' = [op |-> op, raised |-> m.raised,
                buffer_before |-> buffer_deque, window_before |-> summary_deque,
                appended |-> m.appended, drained |-> m.drained,
                inserted |-> m.inserted, evicted |-> m.evicted, finals |-> m.finals,
                summaries |-> m.summaries, stored |-> m.stored, add_calls |-> m.add_calls,
                calls_before |-> Len(summarizer_calls), offered_before |-> Len(offered),
                ended_before |-> ended, context |-> m.context, chroma |-> chroma,
                llm_raised |-> m.llm_raised]

\* the calls of one run: more of them for a buffer longer than MaxBufferSize,
\* which takes that many turns to fill
CallBudget == IF buffer_maxlen <= MaxBufferSize THEN MaxCalls ELSE MaxLongCalls

ProcessTurnCall ==
    /\ n_turns + end_calls < CallBudget
    /\ Len(summarizer_calls) < MaxSummarizerCalls
    /\ LET turn == Turn(n_turns + 1)
           consulted == BufferFull(DequeAppend(buffer_deque, turn, buffer_maxlen))
       IN  \E reply \in RepliesRead(consulted), ollama \in OllamaRead(consulted) :
              Commit(ProcessTurnOp(Self, turn, reply, ollama), "process_turn", NoQuery)
    /\ n_turns' = n_turns + 1
    /\ UNCHANGED <<buffer_maxlen, summary_maxlen, end_calls, ended>>

EndConversationCall ==
    /\ n_turns + end_calls < CallBudget
    /\ Len(summarizer_calls) < MaxSummarizerCalls
    /\ \E reply \in RepliesRead(buffer_deque # <<>>),
          ollama \in OllamaRead(buffer_deque # <<>> \/ summary_deque # <<>>) :
          Commit(EndConversationOp(Self, reply, ollama), "end_conversation", NoQuery)
    /\ end_calls' = end_calls + 1
    /\ ended' = (ended \/ ~last'.raised)
    /\ UNCHANGED <<buffer_maxlen, summary_maxlen, n_turns>>

GetContextCall ==
    /\ \E user_query \in Queries, chroma \in ChromaRead :
          Commit(GetContextForAi(Self, user_query, chroma), "get_context", chroma)
    /\ UNCHANGED <<buffer_maxlen, summary_maxlen, n_turns, end_calls, ended>>

\* the manager called directly, by a caller that is not conversation_loop
Detached == [pc |-> "detached", exit |-> "none", saving |-> FALSE, context_str |-> FALSE]

ProcessTurn == ProcessTurnCall /\ UNCHANGED driver

EndConversation == EndConversationCall /\ UNCHANGED driver

GetContext == GetContextCall /\ UNCHANGED driver

\* a manager just constructed, before its first call
Constructed ==
    /\ buffer_deque = <<>>
    /\ summary_deque = <<>>
    /\ experiential_store = <<>>
    /\ personal_store = <<>>
    /\ list_experiential = <<>>
    /\ list_personal = <<>>
    /\ summarizer_calls = <<>>
    /\ offered = <<>>
    /\ n_turns = 0
    /\ end_calls = 0
    /\ ended = FALSE
    /\ n_faults = 0
    /\ last = [op |-> "init", raised |-> FALSE,
               buffer_before |-> <<>>, window_before |-> <<>>,
               appended |-> <<>>, drained |-> <<>>,
               inserted |-> <<>>, evicted |-> <<>>, finals |-> <<>>,
               summaries |-> <<>>, stored |-> <<>>, add_calls |-> <<>>,
               calls_before |-> 0, offered_before |-> 0, ended_before |-> FALSE,
               context |-> <<>>, chroma |-> NoQuery, llm_raised |-> <<>>]

Init ==
    /\ buffer_maxlen \in 1..MaxBufferSize
    /\ summary_maxlen \in 1..MaxSummarySize
    /\ Constructed
    /\ driver = Detached

Next == ProcessTurn \/ EndConversation

Spec == Init /\ [][Next]_vars

\* The manager with get_context_for_ai called between the other calls, for the
\* shipped capacities (a buffer longer than the seven-turn slice) and for a small
\* buffer under a window that can hold two digests.
ContextSizes == {<<BUFFER_SIZE, SUMMARY_SIZE>>, <<2, MaxSummarySize + 1>>}

InitContext ==
    /\ \E sizes \in ContextSizes : buffer_maxlen = sizes[1] /\ summary_maxlen = sizes[2]
    /\ Constructed
    /\ driver = Detached

NextContext == ProcessTurn \/ EndConversation \/ GetContext

SpecContext == InitContext /\ [][NextContext]_vars

\* ------------------------------------------------------------- src/main.py
\* conversation_loop around one manager.  driver.pc is the statement the coroutine
\* is at, driver.exit is how the while loop was left, driver.saving says that the
\* task made by asyncio.create_task(save_text_async(...)) has not run yet,
\* driver.context_str says that the running handle_conversation_flow call has
\* bound its local context_str.
DriverSizes == {<<2, 2>>, <<3, 1>>}

\* what one pass of listen_once, transcription and keyword tests comes to
Heard == {"nothing", "keyword", "visual", "query", "error", "interrupt", "cancelled"}

\* how an await on a service (the chat model, the camera) ends
Awaited == {"ok", "error", "interrupt", "cancelled"}

\* the awaits at which the event loop can run other tasks: listening, the chat
\* model, the camera, and the sleep before the while test
AtAwait == driver.pc \in {"listen", "respond", "camera", "loop"}

\* an utterance is taken up while the run has calls left for its turn and for the
\* closing call
CanTakeTurn ==
    /\ n_turns + end_calls + 2 <= CallBudget
    /\ Len(summarizer_calls) + 2 <= MaxSummarizerCalls

\* except KeyboardInterrupt: speak "Goodbye!" and break
Caught == [driver EXCEPT !.pc = "end", !.exit = "interrupt"]

\* the interrupt cancels the main task of asyncio.run: CancelledError is neither
\* KeyboardInterrupt nor Exception and leaves conversation_loop
Cancelled == [driver EXCEPT !.pc = "raised", !.exit = "cancelled"]

\* except Exception: print, sleep, and back to the while test
Swallowed == [driver EXCEPT !.pc = "loop"]

\* while time.time() - start < RECORDING_TIME_IN_SECONDS
LoopTest ==
    /\ driver.pc = "loop"
    /\ \E expired \in BOOLEAN :
          driver' = IF expired THEN [driver EXCEPT !.pc = "end", !.exit = "time"]
                    ELSE [driver EXCEPT !.pc = "listen"]
    /\ UNCHANGED manager_vars

\* handle_conversation_flow up to the choice of a path
Listen ==
    /\ driver.pc = "listen"
    /\ \E heard \in Heard :
          /\ heard \in {"visual", "query"} => CanTakeTurn
          /\ driver' =
                LET called == [driver EXCEPT !.context_str = FALSE]
                IN  CASE heard = "nothing"   -> [called EXCEPT !.pc = "loop"]
                      [] heard = "keyword"   -> [called EXCEPT !.pc = "end", !.exit = "keyword",
                                                               !.saving = TRUE]
                      [] heard = "visual"    -> [called EXCEPT !.pc = "camera", !.saving = TRUE]
                      [] heard = "query"     -> [called EXCEPT !.pc = "get_context",
                                                               !.saving = TRUE]
                      [] heard = "error"     -> [called EXCEPT !.pc = "loop"]
                      [] heard = "interrupt" -> [called EXCEPT !.pc = "end",
                                                               !.exit = "interrupt"]
                      [] heard = "cancelled" -> [called EXCEPT !.pc = "raised",
                                                               !.exit = "cancelled"]
    /\ UNCHANGED manager_vars

\* context_str = cm.get_context_for_ai(user_input)
BuildContext ==
    /\ driver.pc = "get_context"
    /\ GetContextCall
    /\ driver' = [driver EXCEPT !.pc = "respond", !.context_str = TRUE]

\* response = await stream_ai_response_async(context_str, user_input)
Respond ==
    /\ driver.pc = "respond"
    /\ \E outcome \in Awaited :
          driver' = CASE outcome = "ok"        -> [driver EXCEPT !.pc = "record"]
                      [] outcome = "error"     -> Swallowed
                      [] outcome = "interrupt" -> Caught
                      [] outcome = "cancelled" -> Cancelled
    /\ UNCHANGED manager_vars

\* vision_response = await camera_tool(user_input)
Camera ==
    /\ driver.pc = "camera"
    /\ \E outcome \in Awaited :
          driver' = CASE outcome = "ok"        -> [driver EXCEPT !.pc = "record"]
                      [] outcome = "error"     -> Swallowed
                      [] outcome = "interrupt" -> Caught
                      [] outcome = "cancelled" -> Cancelled
    /\ UNCHANGED manager_vars

\* cm.process_turn(user_input, response): a plain call inside the coroutine, which
\* is at this statement until the call has returned or raised; an exception of the
\* call is caught by except Exception
RecordTurn ==
    /\ driver.pc = "record"
    /\ ProcessTurnCall
    /\ driver' = [driver EXCEPT !.pc = "loop"]

\* the task of save_text_async runs when the coroutine is at an await
SaveText ==
    /\ driver.saving
    /\ AtAwait
    /\ driver' = [driver EXCEPT !.saving = FALSE]
    /\ UNCHANGED manager_vars

\* cm.end_conversation() after the loop, outside its try
EndSession ==
    /\ driver.pc = "end"
    /\ EndConversationCall
    /\ driver' = [driver EXCEPT !.pc = IF last'.raised THEN "raised" ELSE "returned"]

InitDriver ==
    /\ \E sizes \in DriverSizes : buffer_maxlen = sizes[1] /\ summary_maxlen = sizes[2]
    /\ Constructed
    /\ driver = [pc |-> "loop", exit |-> "none", saving |-> FALSE, context_str |-> FALSE]

NextDriver ==
    \/ LoopTest
    \/ Listen
    \/ BuildContext
    \/ Respond
    \/ Camera
    \/ RecordTurn
    \/ SaveText
    \/ EndSession

SpecDriver == InitDriver /\ [][NextDriver]_vars

\* ------------------------------------------------------------------ claims
\* the turns numbered a..b, in arrival order
Turns(a, b) == [i \in 1..(b - a + 1) |-> Turn(a + i - 1)]

\* C1: a process_turn call whose append brings the buffer to its capacity C removes
\* exactly C \div 2 turns, the oldest ones in arrival order, hands them to the
\* summarizer as one batch (no batch when C \div 2 = 0) and leaves the other
\* C - C \div 2 turns in their order; for odd C one turn fewer is drained than kept.
C1_HalfDrain ==
    (last.op = "process_turn" /\ Len(last.appended) = buffer_maxlen) =>
        LET C == buffer_maxlen
            half == C \div 2
        IN  /\ Len(last.buffer_before) < C =>
                  last.appended = Append(last.buffer_before, Turn(n_turns))
            /\ Len(last.drained) = half
            /\ last.drained = SubSeq(last.appended, 1, half)
            /\ buffer_deque = SubSeq(last.appended, half + 1, C)
            /\ Len(buffer_deque) = C - half
            /\ \A i \in 1..Len(last.drained), j \in 1..Len(buffer_deque) :
                  last.drained[i].user < buffer_deque[j].user
            /\ \A i, j \in 1..Len(buffer_deque) :
                  i < j => buffer_deque[i].user < buffer_deque[j].user
            /\ IF half > 0
               THEN /\ Len(summarizer_calls) = last.calls_before + 1
                    /\ summarizer_calls[Len(summarizer_calls)] = last.drained
               ELSE Len(summarizer_calls) = last.calls_before
            /\ C % 2 = 1 => Len(last.drained) + 1 = Len(buffer_deque)

\* C1 witness: capacity 3 reached, one turn drained and summarized, two kept
C1_Witness ==
    /\ last.op = "process_turn"
    /\ buffer_maxlen = 3
    /\ Len(last.appended) = 3
    /\ last.drained = <<Turn(1)>>
    /\ buffer_deque = <<Turn(2), Turn(3)>>
    /\ summarizer_calls = <<last.drained>>

\* C2 as stated: whenever process_turn calls alone have left the buffer with fewer
\* turns than its capacity, the summarizer has not been invoked.
C2_Original ==
    (end_calls = 0 /\ Len(buffer_deque) < buffer_maxlen) => Len(summarizer_calls) = 0

\* C2 amended: a process_turn call whose append leaves the buffer below capacity
\* only appends the turn, so a sequence of fewer than C calls on a fresh manager
\* never invokes the summarizer.
C2_BelowCapacity ==
    /\ (last.op = "process_turn" /\ Len(last.appended) < buffer_maxlen) =>
          /\ buffer_deque = Append(last.buffer_before, Turn(n_turns))
          /\ summary_deque = last.window_before
          /\ Len(summarizer_calls) = last.calls_before
          /\ Len(offered) = last.offered_before
          /\ last.add_calls = <<>>
    /\ (end_calls = 0 /\ n_turns < buffer_maxlen) =>
          /\ summarizer_calls = <<>>
          /\ buffer_deque = Turns(1, n_turns)
          /\ summary_deque = <<>>
          /\ offered = <<>>

\* C2 witness: three turns in a buffer of capacity four, nothing summarized
C2_Witness ==
    /\ end_calls = 0
    /\ buffer_maxlen = 4
    /\ n_turns = 3
    /\ buffer_deque = Turns(1, 3)
    /\ summarizer_calls = <<>>

\* C3: the window never holds more than summary_maxlen digests and is ordered
\* most recent first; an insertion that evicts removes exactly one digest, the
\* oldest of the window, and that digest is the one passed to _store_facts_if_worthy.
C3_WindowBounded ==
    /\ Len(summary_deque) <= summary_maxlen
    /\ \A i, j \in 1..Len(summary_deque) :
          i < j => summary_deque[i].id > summary_deque[j].id
    /\ last.inserted # <<>> =>
          /\ Len(last.summaries) = 1
          /\ last.inserted = <<last.summaries[1]>> \o last.window_before
    /\ last.evicted # <<>> =>
          /\ Len(last.evicted) = 1
          /\ Len(summary_deque) = Len(last.inserted) - 1
          /\ \A k \in 1..Len(summary_deque) : summary_deque[k] = last.inserted[k]
          /\ \A k \in 1..Len(last.inserted) : last.evicted[1].id <= last.inserted[k].id
          /\ last.stored = last.evicted
          /\ Len(offered) = last.offered_before + 1
          /\ offered[Len(offered)] = last.evicted[1].id
    /\ (last.op = "process_turn" /\ last.evicted = <<>>) => last.stored = <<>>

\* C3 witness: a window of capacity 2 evicts the older of its two digests
C3_Witness ==
    /\ summary_maxlen = 2
    /\ Len(last.inserted) = 2
    /\ Len(last.evicted) = 1
    /\ Len(summary_deque) = 1
    /\ last.evicted[1].id < summary_deque[1].id
    /\ last.stored = last.evicted

\* C4: no add_document call is ever made for a digest whose summary is the
\* sentinel text, whether the digest is evicted or flushed, whatever its lists hold.
C4_SentinelNeverStored ==
    \A i \in 1..Len(last.add_calls) : last.add_calls[i].ctx.summary # SENTINEL

\* C4 witness: end_conversation flushes a sentinel digest that carries facts and
\* makes add calls in the same call, none of them for the sentinel digest
C4_Witness ==
    /\ last.op = "end_conversation"
    /\ \E i \in 1..Len(last.stored) :
          /\ last.stored[i].summary = SENTINEL
          /\ Truthy(last.stored[i].experiential_facts)
          /\ Truthy(last.stored[i].personal_facts)
    /\ last.add_calls # <<>>

\* C5: with the embedding service working, add_document answers DUPLICATE_SKIPPED
\* and leaves the collection as it is when a stored document has similarity
\* >= THRESHOLD, and otherwise stores the text, the count growing by exactly one.
C5_AddDedup ==
    /\ \A i \in 1..Len(last.add_calls) :
          LET a == last.add_calls[i]
              similar == \E j \in 1..Len(a.before) :
                            100 - Abs(Embedding(a.before[j]) - Embedding(a.text)) >= THRESHOLD
          IN  (~a.check_failed /\ ~a.add_failed) =>
                 IF similar
                 THEN a.result = "DUPLICATE_SKIPPED" /\ a.after = a.before
                 ELSE /\ a.result = "DOC_ID"
                      /\ Len(a.after) = Len(a.before) + 1
                      /\ a.after = Append(a.before, a.text)
    \* the recorded collections are the stores: each add starts from what the
    \* previous add on that store left, and the last one gives the store's state
    /\ \A i \in 1..Len(last.add_calls) :
          LET a == last.add_calls[i]
              later == {j \in (i + 1)..Len(last.add_calls) : last.add_calls[j].store = a.store}
          IN  IF later = {}
              THEN a.after = (IF a.store = "experiential" THEN experiential_store
                              ELSE personal_store)
              ELSE \E j \in later :
                      /\ \A k \in later : j <= k
                      /\ last.add_calls[j].before = a.after

\* C5 witness: on empty stores, "f1" then the unrelated "f2" give +2 on one store,
\* "f1" then its rewording "f1b" give +1 and DUPLICATE_SKIPPED on the other
C5_Witness ==
    /\ Len(last.add_calls) = 4
    /\ \A i \in 1..4 : ~last.add_calls[i].check_failed /\ ~last.add_calls[i].add_failed
    /\ last.add_calls[1].before = <<>>
    /\ last.add_calls[3].before = <<>>
    /\ <<last.add_calls[1].text, last.add_calls[2].text>> = <<"f1", "f2">>
    /\ <<last.add_calls[3].text, last.add_calls[4].text>> = <<"f1", "f1b">>
    /\ last.add_calls[4].result = "DUPLICATE_SKIPPED"
    /\ Len(experiential_store) = 2
    /\ Len(personal_store) = 1

\* one session: process_turn calls, then at most one end_conversation call
InSession == end_calls = 0 \/ (end_calls = 1 /\ last.op = "end_conversation")

NoRepeat(seq) == \A i, j \in 1..Len(seq) : i # j => seq[i] # seq[j]

Range(seq) == {seq[i] : i \in 1..Len(seq)}

\* C6: over a session every digest the summarizer produced is passed to
\* _store_facts_if_worthy at most once (before end_conversation a digest is either
\* resident in the window or has been passed once), and when end_conversation has
\* returned every digest of the session has been passed exactly once.
C6_PersistAtMostOnce ==
    InSession =>
        /\ NoRepeat(offered)
        /\ Range(offered) \subseteq 1..Len(summarizer_calls)
        /\ end_calls = 0 =>
              /\ Range(offered) \cup {summary_deque[k].id : k \in 1..Len(summary_deque)}
                    = 1..Len(summarizer_calls)
              /\ \A k \in 1..Len(summary_deque) : summary_deque[k].id \notin Range(offered)
        /\ (end_calls = 1 /\ ~last.raised) =>
              /\ Range(offered) = 1..Len(summarizer_calls)
              /\ Len(offered) = Len(summarizer_calls)

\* C6 witness: a session of three digests has ended, one evicted earlier, one
\* flushed from the window and the final one, each passed once
C6_Witness ==
    /\ end_calls = 1
    /\ last.op = "end_conversation"
    /\ ~last.raised
    /\ Len(summarizer_calls) = 3
    /\ Len(last.window_before) = 1
    /\ Len(last.finals) = 1
    /\ Len(offered) = 3

\* C7: an end_conversation call that returns has passed every digest resident in
\* the window to _store_facts_if_worthy, has summarized the whole remaining buffer
\* (when non-empty) as one final digest and passed that digest too, and leaves
\* the buffer and the window empty.
C7_EndFlushesAll ==
    (last.op = "end_conversation" /\ ~last.raised) =>
        LET w == last.window_before
            b == last.buffer_before
        IN  /\ Len(last.stored) >= Len(w)
            /\ \A k \in 1..Len(w) : last.stored[k] = w[k]
            /\ IF b # <<>>
               THEN /\ Len(summarizer_calls) = last.calls_before + 1
                    /\ summarizer_calls[Len(summarizer_calls)] = b
                    /\ Len(last.summaries) = 1
                    /\ last.summaries[1].id = Len(summarizer_calls)
                    /\ last.finals = last.summaries
                    /\ Len(last.stored) = Len(w) + 1
                    /\ last.stored[Len(w) + 1] = last.summaries[1]
               ELSE /\ Len(summarizer_calls) = last.calls_before
                    /\ last.summaries = <<>>
                    /\ Len(last.stored) = Len(w)
            /\ Len(offered) = last.offered_before + Len(last.stored)
            /\ \A k \in 1..Len(last.stored) : offered[last.offered_before + k] = last.stored[k].id
            /\ buffer_deque = <<>>
            /\ summary_deque = <<>>

\* C7 witness: end_conversation on a window of one digest and a buffer of three
\* turns (capacity 4): one final digest for all three turns
C7_Witness ==
    /\ last.op = "end_conversation"
    /\ ~last.raised
    /\ buffer_maxlen = 4
    /\ Len(last.window_before) = 1
    /\ last.buffer_before = Turns(3, 5)
    /\ summarizer_calls[Len(summarizer_calls)] = Turns(3, 5)
    /\ Len(last.stored) = 2
    /\ buffer_deque = <<>>
    /\ summary_deque = <<>>

NotBlank(f) == f \notin {"", " "}

\* the facts of a list that qualify for the Fact Store, in list order
Qualifying(list) == IF list.some THEN SelectSeq(list.items, NotBlank) ELSE <<>>

\* the texts the last call gave to add_document for digest ctx on a store, in order
AddedTexts(ctx, store) ==
    LET For(a) == a.ctx.id = ctx.id /\ a.store = store
        sel == SelectSeq(last.add_calls, For)
    IN  [i \in 1..Len(sel) |-> sel[i].text]

IsPrefix(p, q) == Len(p) <= Len(q) /\ \A i \in 1..Len(p) : p[i] = q[i]

\* each qualifying fact of ctx was given to add_document exactly once by the last call
AddedExactlyOnce(ctx) ==
    IF ctx.summary = SENTINEL
    THEN AddedTexts(ctx, "experiential") = <<>> /\ AddedTexts(ctx, "personal") = <<>>
    ELSE /\ AddedTexts(ctx, "experiential") = Qualifying(ctx.experiential_facts)
         /\ AddedTexts(ctx, "personal") = Qualifying(ctx.personal_facts)

\* C8 as stated: capacity 4; 4 turns drain exactly 2; after 2 more turns the buffer
\* holds 4 with no further drain; end_conversation summarizes those 4 as one digest
\* and each qualifying fact is persisted exactly once.
C8_Original ==
    buffer_maxlen = 4 =>
        /\ (end_calls = 0 /\ n_turns = 4) =>
              summarizer_calls = <<Turns(1, 2)>> /\ buffer_deque = Turns(3, 4)
        /\ (end_calls = 0 /\ n_turns = 6) =>
              summarizer_calls = <<Turns(1, 2)>> /\ buffer_deque = Turns(3, 6)
        /\ (end_calls = 1 /\ n_turns = 6 /\ last.op = "end_conversation" /\ ~last.raised) =>
              /\ summarizer_calls = <<Turns(1, 2), Turns(3, 6)>>
              /\ \A i \in 1..Len(last.stored) : AddedExactlyOnce(last.stored[i])

\* C8 amended: capacity 4; 4 turns drain exactly the 2 oldest; the 6th turn brings the
\* buffer to 4 again and drains 2 more, leaving 2; end_conversation summarizes those
\* 2 as one final digest; a call that returns has given each qualifying fact of
\* every digest it persisted to add_document exactly once, a call that raised at
\* most once, and no digest is persisted twice.
C8_Amended ==
    buffer_maxlen = 4 =>
        /\ (end_calls = 0 /\ n_turns = 4) =>
              summarizer_calls = <<Turns(1, 2)>> /\ buffer_deque = Turns(3, 4)
        /\ (end_calls = 0 /\ n_turns = 5) =>
              summarizer_calls = <<Turns(1, 2)>> /\ buffer_deque = Turns(3, 5)
        /\ (end_calls = 0 /\ n_turns = 6) =>
              summarizer_calls = <<Turns(1, 2), Turns(3, 4)>> /\ buffer_deque = Turns(5, 6)
        /\ (end_calls = 1 /\ n_turns = 6 /\ last.op = "end_conversation" /\ ~last.raised) =>
              /\ summarizer_calls = <<Turns(1, 2), Turns(3, 4), Turns(5, 6)>>
              /\ Len(last.finals) = 1
              /\ last.finals[1].id = 3
              /\ Range(offered) = {1, 2, 3}
              /\ Len(offered) = 3
        /\ InSession =>
              /\ NoRepeat(offered)
              /\ ~last.raised => \A i \in 1..Len(last.stored) : AddedExactlyOnce(last.stored[i])
              /\ last.raised =>
                    \A i \in 1..Len(last.stored) :
                        LET ctx == last.stored[i]
                        IN  /\ IsPrefix(AddedTexts(ctx, "experiential"),
                                        Qualifying(ctx.experiential_facts))
                            /\ IsPrefix(AddedTexts(ctx, "personal"),
                                        Qualifying(ctx.personal_facts))

\* C8 witness: capacity 4, six turns, then end_conversation returns having
\* summarized turns 5 and 6 into a final digest whose facts went to add_document
C8_Witness ==
    /\ buffer_maxlen = 4
    /\ n_turns = 6
    /\ end_calls = 1
    /\ last.op = "end_conversation"
    /\ ~last.raised
    /\ summarizer_calls = <<Turns(1, 2), Turns(3, 4), Turns(5, 6)>>
    /\ Len(last.finals) = 1
    /\ \E i \in 1..Len(last.add_calls) : last.add_calls[i].ctx.id = 3

\* C9 as stated: window capacity 2; once d1, d2, d3 have been ingested, d1 and only
\* d1 has been evicted and passed to _store_facts_if_worthy and the window is [d3, d2].
C9_Original ==
    (summary_maxlen = 2 /\ end_calls = 0 /\ Len(summarizer_calls) = 3) =>
        /\ offered = <<1>>
        /\ Len(summary_deque) = 2
        /\ summary_deque[1].id = 3
        /\ summary_deque[2].id = 2

\* C10 as stated: once an end_conversation call has returned, a process_turn call
\* adds no turn to the buffer and triggers neither summarization nor persistence.
C10_Original ==
    (last.op = "process_turn" /\ last.ended_before) =>
        /\ buffer_deque = last.buffer_before
        /\ Len(summarizer_calls) = last.calls_before
        /\ Len(offered) = last.offered_before
        /\ last.add_calls = <<>>

\* the texts for which add_document returned a new id on a store, in call order
FreshTexts(calls, store) ==
    LET Fresh(a) == a.store = store /\ a.result = "DOC_ID"
        sel == SelectSeq(calls, Fresh)
    IN  [i \in 1..Len(sel) |-> sel[i].text]

\* C11 as stated: a call appends to the audit list of a category exactly the facts
\* for which add_document on that category's store returned a new id, and nothing
\* for an add that returned DUPLICATE_SKIPPED.
C11_Original ==
    [][ /\ list_experiential' =
              list_experiential \o FreshTexts(last'.add_calls, "experiential")
        /\ list_personal' = list_personal \o FreshTexts(last'.add_calls, "personal") ]_vars

\* the places of a line in a rendered context
Positions(context, line) == {i \in 1..Len(context) : context[i] = line}

\* C12: whatever the buffer, the window and the stores hold and whichever fact
\* query fails, get_context_for_ai returns a string in which the four section
\* markers occur in the order current conversation, past conversation summary,
\* experiential facts, personal facts.
C12_FourMarkers ==
    last.op = "get_context" =>
        /\ ~last.raised
        /\ \E a \in Positions(last.context, MarkerCurrent),
              b \in Positions(last.context, MarkerSummary),
              c \in Positions(last.context, MarkerExperiential),
              d \in Positions(last.context, MarkerPersonal) :
              a < b /\ b < c /\ c < d

\* C12 witness: get_context_for_ai on a fresh manager (empty buffer, window and
\* stores) with both fact queries failing still returns the four markers
C12_Witness ==
    /\ last.op = "get_context"
    /\ buffer_deque = <<>> /\ summary_deque = <<>>
    /\ experiential_store = <<>> /\ personal_store = <<>>
    /\ last.chroma.experiential_fails /\ last.chroma.personal_fails
    /\ last.context = <<Blank, MarkerCurrent, Blank, Pad, MarkerSummary, Blank, Pad,
                        MarkerExperiential, Blank, Blank, MarkerPersonal, Blank, Blank>>

Min(a, b) == IF a < b THEN a ELSE b

\* the lines of a rendered context after marker `from` up to the separator line
\* that precedes marker `to`
SectionBetween(context, from, to) ==
    LET a == CHOOSE i \in Positions(context, from) : TRUE
        b == CHOOSE i \in Positions(context, to) : TRUE
    IN  SubSeq(context, a + 1, b - 2)

\* C13: the first section of the returned context is the last min(7, n) of the n
\* buffered turns, oldest first, each as a User line followed by an AI line (the
\* empty string for an empty buffer); the second section is the summary of every
\* digest in the window, one per line, newest digest first.
C13_Sections ==
    last.op = "get_context" =>
        LET n == Len(buffer_deque)
            k == Min(7, n)
            recent == SectionBetween(last.context, MarkerCurrent, MarkerSummary)
            past == SectionBetween(last.context, MarkerSummary, MarkerExperiential)
        IN  /\ IF n = 0 THEN recent = <<Blank>>
               ELSE /\ Len(recent) = 2 * k
                    /\ \A j \in 1..k :
                          /\ recent[2 * j - 1] = UserLine(buffer_deque[n - k + j].user)
                          /\ recent[2 * j] = AiLine(buffer_deque[n - k + j].ai)
            /\ \A i, j \in 1..n : i < j => buffer_deque[i].user < buffer_deque[j].user
            /\ IF summary_deque = <<>> THEN past = <<Blank>>
               ELSE /\ Len(past) = Len(summary_deque)
                    /\ \A i \in 1..Len(past) : past[i] = TextLine(summary_deque[i].summary)
            /\ \A i, j \in 1..Len(summary_deque) :
                  i < j => summary_deque[i].id > summary_deque[j].id

\* C13 witness: eight turns in the buffer of capacity 10; the context shows turns
\* 2 to 8, fourteen lines, and not turn 1
C13_Witness ==
    /\ last.op = "get_context"
    /\ buffer_deque = Turns(1, 8)
    /\ Len(SectionBetween(last.context, MarkerCurrent, MarkerSummary)) = 14
    /\ last.context[3] = UserLine(2)
    /\ last.context[16] = AiLine(8)
    /\ Positions(last.context, UserLine(1)) = {}

\* C14 as stated: an add_document call during which a request to the embedding
\* service fails ends by raising to its caller and leaves the collection as it was.
C14_Original ==
    \A i \in 1..Len(last.add_calls) :
        LET a == last.add_calls[i]
            \* the request of the duplicate check failed, or the request of the
            \* insert, which is made only when no duplicate was found
            failed == a.check_failed \/ (a.add_failed /\ a.result # "DUPLICATE_SKIPPED")
        IN  failed => (a.result = "RAISED" /\ a.after = a.before)

\* the lines after the last marker, without the closing empty line
PersonalSection(context) ==
    LET d == CHOOSE i \in Positions(context, MarkerPersonal) : TRUE
    IN  SubSeq(context, d + 1, Len(context) - 1)

\* C15: a get_context_for_ai call during which a fact query fails (its embedding
\* request or the collection query) still returns the context: the section of the
\* failed query is empty, the section of a query that worked lists the nearest
\* min(3, n) of the n stored facts, nothing is raised, and the buffer and the
\* window are what they were before the call.
C15_QueryFailureAbsorbed ==
    last.op = "get_context" =>
        LET experiential == SectionBetween(last.context, MarkerExperiential, MarkerPersonal)
            personal == PersonalSection(last.context)
        IN  /\ ~last.raised
            /\ last.context # <<>>
            /\ last.chroma.experiential_fails => experiential = <<Blank>>
            /\ last.chroma.personal_fails => personal = <<Blank>>
            /\ (~last.chroma.experiential_fails /\ experiential_store # <<>>) =>
                  /\ Len(experiential) = Min(N_FACTS_CONTEXT, Len(experiential_store))
                  /\ \A i \in 1..Len(experiential) : experiential[i].kind = "- "
            /\ (~last.chroma.personal_fails /\ personal_store # <<>>) =>
                  /\ Len(personal) = Min(N_FACTS_CONTEXT, Len(personal_store))
                  /\ \A i \in 1..Len(personal) : personal[i].kind = "- "
            /\ buffer_deque = last.buffer_before
            /\ summary_deque = last.window_before

\* C15 witness: both stores hold facts, the experiential query fails and the
\* personal one works: the context has an empty experiential section and lists
\* the personal fact
C15_Witness ==
    /\ last.op = "get_context"
    /\ ~last.raised
    /\ experiential_store = <<"f1", "f2">>
    /\ personal_store = <<"f1">>
    /\ last.chroma.experiential_fails
    /\ ~last.chroma.personal_fails
    /\ SectionBetween(last.context, MarkerExperiential, MarkerPersonal) = <<Blank>>
    /\ PersonalSection(last.context) = <<FactLine("f1")>>
    /\ buffer_deque # <<>>

\* C16: every batch handed to summarize_conversation comes back as exactly one
\* digest, also when llm.invoke raises: the digest is then the sentinel (the fixed
\* error text, entity_relations, experiential_facts and personal_facts all None)
\* and the manager goes on with it; a manager call raises only when an
\* add_document call raised.
C16_SummarizeTotal ==
    /\ Len(last.summaries) = Len(summarizer_calls) - last.calls_before
    /\ Len(last.llm_raised) = Len(last.summaries)
    /\ \A i \in 1..Len(last.summaries) :
          /\ last.summaries[i].id = last.calls_before + i
          /\ last.llm_raised[i] =>
                /\ last.summaries[i].summary = SENTINEL
                /\ last.summaries[i].entity_relations = None
                /\ last.summaries[i].experiential_facts = None
                /\ last.summaries[i].personal_facts = None
          /\ last.op = "process_turn" => last.inserted # <<>> /\ last.inserted[1] = last.summaries[i]
          /\ last.op = "end_conversation" => last.stored[Len(last.stored)] = last.summaries[i]
    /\ last.raised =>
          /\ last.add_calls # <<>>
          /\ last.add_calls[Len(last.add_calls)].result = "RAISED"

\* C16 witness: llm.invoke raised during a half-drain; process_turn returned with
\* the sentinel digest at the front of the window
C16_Witness ==
    /\ last.op = "process_turn"
    /\ ~last.raised
    /\ last.llm_raised = <<TRUE>>
    /\ last.drained # <<>>
    /\ Len(last.summaries) = 1
    /\ last.summaries[1].summary = SENTINEL
    /\ last.summaries[1].experiential_facts = None
    /\ summary_deque # <<>>
    /\ summary_deque[1] = last.summaries[1]

\* the add_document calls of a call log made on one store, in call order
AddsOn(calls, store) ==
    LET On(a) == a.store = store
    IN  SelectSeq(calls, On)

\* some document of the collection has similarity >= THRESHOLD to the text
HasSimilar(coll, text) ==
    \E j \in 1..Len(coll) : 100 - Abs(Embedding(coll[j]) - Embedding(text)) >= THRESHOLD

\* the adds on one store start from that store's collection, each from what the
\* one before left, and the last gives the store's new collection; with the
\* service up, an add is skipped exactly when its own collection has a similar text
ChainsOn(calls, old, new) ==
    /\ calls = <<>> => new = old
    /\ calls # <<>> =>
          /\ calls[1].before = old
          /\ calls[Len(calls)].after = new
          /\ \A i \in 1..(Len(calls) - 1) : calls[i + 1].before = calls[i].after
    /\ \A i \in 1..Len(calls) :
          (~calls[i].check_failed /\ ~calls[i].add_failed) =>
              (calls[i].result = "DUPLICATE_SKIPPED" <=> HasSimilar(calls[i].before, calls[i].text))

\* C17: every add for an experiential fact reads and changes the experiential
\* collection only, every add for a personal fact the personal collection only,
\* so whether a fact is skipped depends on its own category's collection.
C17_PerCategory ==
    [][ /\ ChainsOn(AddsOn(last'.add_calls, "experiential"),
                    experiential_store, experiential_store')
        /\ ChainsOn(AddsOn(last'.add_calls, "personal"),
                    personal_store, personal_store') ]_vars

\* C17 witness: "f1" was stored as experiential and, in the same call, "f1" was
\* stored as personal too, the personal collection being empty before
C17_Witness ==
    /\ Len(last.add_calls) >= 3
    /\ last.add_calls[1].store = "experiential"
    /\ last.add_calls[1].text = "f1"
    /\ last.add_calls[1].result = "DOC_ID"
    /\ \E i \in 2..Len(last.add_calls) :
          /\ last.add_calls[i].store = "personal"
          /\ last.add_calls[i].text = "f1"
          /\ last.add_calls[i].before = <<>>
          /\ ~last.add_calls[i].check_failed
          /\ last.add_calls[i].result = "DOC_ID"
    /\ experiential_store[1] = "f1"
    /\ personal_store[1] = "f1"

\* every turn of batch a arrived before every turn of batch b
BatchBefore(a, b) == \A i \in 1..Len(a), j \in 1..Len(b) : a[i].user < b[j].user

\* the digests of a window, front to back, are from newest to oldest: each is the
\* result of a summarizer call already made, on a batch of later turns than the
\* digest behind it
NewestFirst(window) ==
    /\ \A i \in 1..Len(window) :
          window[i].id \in 1..Len(summarizer_calls) /\ summarizer_calls[window[i].id] # <<>>
    /\ \A i, j \in 1..Len(window) :
          i < j => /\ window[i].id > window[j].id
                   /\ BatchBefore(summarizer_calls[window[j].id], summarizer_calls[window[i].id])

\* C18: process_turn puts its turn behind the turns already buffered, so the buffer
\* is in arrival order; a half-drain gets the digest of its batch back from the
\* summarizer (a real one or the sentinel) and inserts that digest, and the window
\* holds the digests in the order their batches were drained, newest at the front.
C18_Ordering ==
    /\ \A i, j \in 1..Len(buffer_deque) : i < j => buffer_deque[i].user < buffer_deque[j].user
    /\ last.op = "process_turn" =>
          /\ last.appended # <<>>
          /\ last.appended[Len(last.appended)] = Turn(n_turns)
          /\ \A i \in 1..(Len(last.appended) - 1) : last.appended[i].user < n_turns
          /\ IsPrefix(SubSeq(last.appended, 1, Len(last.appended) - 1),
                      IF Len(last.buffer_before) = buffer_maxlen
                      THEN Tail(last.buffer_before) ELSE last.buffer_before)
    /\ (last.op = "process_turn" /\ last.drained # <<>>) =>
          /\ Len(last.summaries) = 1
          /\ Len(summarizer_calls) = last.calls_before + 1
          /\ summarizer_calls[Len(summarizer_calls)] = last.drained
          /\ last.summaries[1].id = Len(summarizer_calls)
          /\ last.inserted # <<>>
          /\ last.inserted[1] = last.summaries[1]
          /\ NewestFirst(last.inserted)
    /\ NewestFirst(summary_deque)

\* C18 witness: the second half-drain of a run; its digest went in front of the
\* digest of the first batch
C18_Witness ==
    /\ last.op = "process_turn"
    /\ last.drained # <<>>
    /\ Len(last.inserted) = 2
    /\ last.inserted[1].id = 2
    /\ last.inserted[2].id = 1
    /\ summarizer_calls[2] = last.drained
    /\ BatchBefore(summarizer_calls[1], summarizer_calls[2])

\* process_turn has been called with the turn that fills the buffer: its
\* summarization request and the fact writes that follow are in progress
SummarizationInProgress ==
    /\ driver.pc = "record"
    /\ BufferFull(DequeAppend(buffer_deque, Turn(n_turns + 1), buffer_maxlen))
    /\ HalfSize(buffer_maxlen) > 0

\* C19 as stated: while the summarization request or a fact write of process_turn
\* is in progress, the driver can begin its next listen/speak cycle.
C19_Original == SummarizationInProgress => ENABLED Listen

\* the loop was left in one of the three ways and conversation_loop is over
LoopOver ==
    /\ driver.pc \in {"returned", "raised"}
    /\ driver.exit \in {"keyword", "time", "interrupt"}

\* C20 as stated: on every way out of the loop (keyword, time limit, caught
\* interrupt) end_conversation is called exactly once, after the last process_turn,
\* and has run to completion when the driver is over.
C20_Original ==
    LoopOver => /\ end_calls = 1
                /\ last.op = "end_conversation"
                /\ ~last.raised
                /\ ended
                /\ driver.pc = "returned"

\* C21: no call of process_turn, get_context_for_ai or end_conversation removes or
\* changes a stored fact: every add_document call leaves the documents of its
\* collection in place and can only put a new one behind them, and across every
\* step each collection keeps what it held.
C21_AppendOnly ==
    /\ [](\A i \in 1..Len(last.add_calls) :
             IsPrefix(last.add_calls[i].before, last.add_calls[i].after))
    /\ [][/\ IsPrefix(experiential_store, experiential_store')
          /\ IsPrefix(personal_store, personal_store')]_vars

\* C21 witness: a call on a store that already held facts skipped a reworded
\* duplicate of a stored fact, and a collection that held facts got a new one
C21_Witness ==
    /\ last.add_calls # <<>>
    /\ last.add_calls[1].before # <<>>
    /\ \E i \in 1..Len(last.add_calls) :
          /\ last.add_calls[i].result = "DUPLICATE_SKIPPED"
          /\ last.add_calls[i].text \notin Range(last.add_calls[i].before)
    /\ \E i \in 1..Len(last.add_calls) :
          /\ last.add_calls[i].result = "DOC_ID"
          /\ last.add_calls[i].before # <<>>

\* C22: an end_conversation call made right after one that returned changes nothing
\* in the memory: it calls the summarizer zero times, offers no digest and makes
\* no add_document call, returns, and the buffer and the window stay empty.
C22_SecondEndNoOp ==
    [][(last.op = "end_conversation" /\ ~last.raised /\ last'.op = "end_conversation") =>
          /\ ~last'.raised
          /\ last'.summaries = <<>>
          /\ summarizer_calls' = summarizer_calls
          /\ last'.stored = <<>>
          /\ offered' = offered
          /\ last'.add_calls = <<>>
          /\ buffer_deque' = <<>>
          /\ summary_deque' = <<>>
          /\ UNCHANGED <<experiential_store, personal_store,
                         list_experiential, list_personal>>]_vars

\* C22 witness: the first end_conversation of a session with turns flushed a
\* digest from the window and stored facts, the second one came right after it
C22_Witness ==
    /\ last.op = "end_conversation"
    /\ end_calls = 2
    /\ last.ended_before
    /\ last.buffer_before = <<>>
    /\ last.window_before = <<>>
    /\ n_turns >= 2
    /\ Len(offered) >= 2
    /\ personal_store # <<>>

\* C23 as stated: every end_conversation call, also one during which an add_document
\* fails, offers every digest that was resident in the window and the final digest
\* of the remaining turns, and clears the buffer and the window.
C23_Original ==
    last.op = "end_conversation" =>
        LET w == last.window_before
        IN  /\ Len(last.stored) >= Len(w)
            /\ \A k \in 1..Len(w) : last.stored[k] = w[k]
            /\ last.buffer_before # <<>> =>
                  /\ Len(last.finals) = 1
                  /\ Len(last.stored) = Len(w) + 1
                  /\ last.stored[Len(w) + 1] = last.finals[1]
            /\ buffer_deque = <<>>
            /\ summary_deque = <<>>

\* the add_document calls the last call made for digest ctx, in order
AddsFor(ctx) ==
    LET For(a) == a.ctx.id = ctx.id IN SelectSeq(last.add_calls, For)

\* the adds _store_facts_if_worthy owes a digest: its qualifying experiential facts
\* on the experiential store, then its qualifying personal facts on the personal one
OwedAdds(ctx) ==
    LET e == Qualifying(ctx.experiential_facts)
        p == Qualifying(ctx.personal_facts)
    IN  [i \in 1..Len(e) |-> [store |-> "experiential", text |-> e[i]]]
        \o [i \in 1..Len(p) |-> [store |-> "personal", text |-> p[i]]]

\* the adds made for ctx as (store, text) pairs
MadeAdds(ctx) ==
    LET a == AddsFor(ctx) IN [i \in 1..Len(a) |-> [store |-> a[i].store, text |-> a[i].text]]

\* C24: for every digest a call passes to _store_facts_if_worthy, the add_document
\* calls made for it are exactly its non-empty, non-blank experiential facts on the
\* experiential store followed by its personal facts on the personal store, each
\* once and in list order (up to and including the add that raised, when one did),
\* none for a sentinel digest, and the call makes no other add; a digest without
\* facts enters the window like any other and gets zero adds when it is offered.
C24_AddsPerDigest ==
    /\ \A i \in 1..Len(last.stored) :
          LET ctx == last.stored[i]
              made == MadeAdds(ctx)
              owed == IF ctx.summary = SENTINEL THEN <<>> ELSE OwedAdds(ctx)
              failed == \E k \in 1..Len(AddsFor(ctx)) : AddsFor(ctx)[k].result = "RAISED"
          IN  IF failed
              THEN /\ IsPrefix(made, owed)
                   /\ \A k \in 1..Len(made) :
                         AddsFor(ctx)[k].result = "RAISED" <=> k = Len(made)
              ELSE made = owed
    /\ \A k \in 1..Len(last.add_calls) :
          \E i \in 1..Len(last.stored) : last.stored[i].id = last.add_calls[k].ctx.id
    /\ (last.op = "process_turn" /\ last.drained # <<>>) =>
          last.inserted # <<>> /\ last.inserted[1] = last.summaries[1]

\* C24 witness: one end_conversation call flushed a digest that has only
\* entity_relations (no add for it) and then stored the final digest's facts
\* "f1", "f2" as experiential and "f1", "f1b" as personal, skipping the blank one
C24_Witness ==
    /\ last.op = "end_conversation"
    /\ ~last.raised
    /\ Len(last.stored) = 2
    /\ last.window_before = <<last.stored[1]>>
    /\ last.stored[1].entity_relations.some
    /\ OwedAdds(last.stored[1]) = <<>>
    /\ AddsFor(last.stored[1]) = <<>>
    /\ MadeAdds(last.stored[2]) =
          <<[store |-> "experiential", text |-> "f1"], [store |-> "experiential", text |-> "f2"],
            [store |-> "personal", text |-> "f1"], [store |-> "personal", text |-> "f1b"]>>

\* the turns of all batches handed to the summarizer, batch after batch
RECURSIVE Flatten(_)
Flatten(batches) ==
    IF batches = <<>> THEN <<>> ELSE Head(batches) \o Flatten(Tail(batches))

\* C25 as stated: for every capacity C >= 1, every turn given to process_turn is
\* afterwards either resident in the buffer or in exactly one batch handed to the
\* summarizer, and the batches are disjoint, contiguous and in arrival order.
C25_Original ==
    (end_calls = 0 \/ (end_calls = 1 /\ last.op = "end_conversation" /\ ~last.raised)) =>
        Flatten(summarizer_calls) \o buffer_deque = Turns(1, n_turns)

\* two documents of one collection are near-duplicates of each other
HoldsNearDuplicates(coll) ==
    \E i, j \in 1..Len(coll) : i < j /\ 100 - Distance(coll[i], coll[j]) >= THRESHOLD

\* C26 as stated: in every reachable state, also of runs where the embedding
\* service fails intermittently, no collection holds two facts whose similarity
\* is at or above the duplicate threshold.
C26_Original ==
    /\ ~HoldsNearDuplicates(experiential_store)
    /\ ~HoldsNearDuplicates(personal_store)

Ids(ctxs) == {ctxs[i].id : i \in 1..Len(ctxs)}

\* a process_turn call raised: an add_document of its eviction failed
EvictionFailed ==
    /\ last.op = "process_turn"
    /\ last.raised

\* what a failed eviction leaves of the buffer: the turn is appended, the drained
\* half is gone
TurnKeptHalfGone ==
    /\ last.appended = Append(last.buffer_before, Turn(n_turns))
    /\ last.drained = SubSeq(last.appended, 1, HalfSize(buffer_maxlen))
    /\ buffer_deque = SubSeq(last.appended, HalfSize(buffer_maxlen) + 1, buffer_maxlen)
    /\ buffer_deque[Len(buffer_deque)] = Turn(n_turns)

C29_SentinelIngested ==
    /\ (last.op = "process_turn" /\ last.drained # <<>>
        /\ last.summaries[1].summary = SENTINEL) =>
          /\ last.llm_raised[1] => last.summaries[1] = [id |-> Len(summarizer_calls)] @@ SentinelContext
          /\ last.drained \o buffer_deque = last.appended
          /\ \A i \in 1..Len(last.drained), j \in 1..Len(buffer_deque) :
                last.drained[i] # buffer_deque[j]
          /\ last.inserted = <<last.summaries[1]>> \o last.window_before
          /\ IF Len(last.inserted) = summary_maxlen
             THEN /\ last.evicted = <<last.inserted[Len(last.inserted)]>>
                  /\ summary_deque = SubSeq(last.inserted, 1, Len(last.inserted) - 1)
                  /\ last.stored = last.evicted
             ELSE /\ last.evicted = <<>>
                  /\ summary_deque = last.inserted
                  /\ last.stored = <<>>
    /\ last.op = "get_context" =>
          LET past == SectionBetween(last.context, MarkerSummary, MarkerExperiential)
          IN  \A i \in 1..Len(summary_deque) :
                 /\ i <= Len(past)
                 /\ past[i] = TextLine(summary_deque[i].summary)

\* C29 witness: the summarization that fills the window failed; its sentinel
\* digest went in front of the resident digests and pushed the valid digest 1
\* out, whose facts were stored, and get_context_for_ai shows the error text as
\* the first line of the summary section, above the summary of a valid digest
C29_Witness ==
    /\ last.op = "get_context"
    /\ summary_maxlen >= 3
    /\ Len(summary_deque) = summary_maxlen - 1
    /\ summary_deque[1] = [id |-> summary_maxlen] @@ SentinelContext
    /\ summary_deque[2].summary # SENTINEL
    /\ offered = <<1>>
    /\ personal_store = <<"f1">>
    /\ Len(buffer_deque) = 1
    /\ LET past == SectionBetween(last.context, MarkerSummary, MarkerExperiential)
       IN  /\ Len(past) = Len(summary_deque)
           /\ past[1] = TextLine(SENTINEL)
           /\ past[2] = TextLine(summary_deque[2].summary)

\* C30: a get_context_for_ai call, with or without a failing fact query, leaves the
\* buffer, the window, both collections and both audit lists as they were, calls
\* the summarizer zero times and offers no digest to persistence.
C30_GetContextReadOnly ==
    [][last'.op = "get_context" =>
          /\ UNCHANGED <<buffer_deque, summary_deque, experiential_store, personal_store,
                         list_experiential, list_personal>>
          /\ UNCHANGED <<summarizer_calls, offered>>
          /\ last'.summaries = <<>>
          /\ last'.add_calls = <<>>
          /\ last'.buffer_before = buffer_deque'
          /\ last'.window_before = summary_deque']_vars

\* C30 witness: get_context_for_ai was called, its personal query failing, on a
\* manager with a buffered turn, digests in the window, facts in both collections
\* and in both audit lists
C30_Witness ==
    /\ last.op = "get_context"
    /\ last.chroma.personal_fails
    /\ buffer_deque # <<>>
    /\ Len(summary_deque) >= 2
    /\ experiential_store # <<>>
    /\ personal_store # <<>>
    /\ list_experiential # <<>>
    /\ list_personal # <<>>
    /\ last.buffer_before = buffer_deque
    /\ last.window_before = summary_deque

\* C31 as stated: every process_turn call of the driver comes after a
\* get_context_for_ai call made earlier in the same pass of the loop, before the
\* response was produced and before the turn was appended.
C31_Original == [][last'.op = "process_turn" => driver.context_str]_vars

\* C32: every add_document call whose duplicate check was answered made exactly
\* one query on its own collection, for a single nearest neighbour, whether the
\* text was then stored or skipped: the query returned at most one document, a
\* closest one, and the text was skipped exactly when that one document is
\* similar to it; a failed check got no answer.
C32_OneLookupPerAdd ==
    \A i \in 1..Len(last.add_calls) :
        LET a == last.add_calls[i]
        IN  IF a.check_failed
            THEN a.queries = <<>>
            ELSE /\ Len(a.queries) = 1
                 /\ a.queries[1].collection = a.before
                 /\ a.queries[1].n_results = 1
                 /\ Len(a.queries[1].documents) = Min(1, Len(a.before))
                 /\ \A k \in 1..Len(a.queries[1].documents) :
                       /\ a.queries[1].documents[k] \in Range(a.before)
                       /\ \A j \in 1..Len(a.before) :
                             Distance(a.queries[1].documents[k], a.text)
                                <= Distance(a.before[j], a.text)
                 /\ a.result = "DUPLICATE_SKIPPED" <=>
                       /\ a.queries[1].documents # <<>>
                       /\ 100 - Distance(a.queries[1].documents[1], a.text) >= THRESHOLD

\* C32 witness: one call stored "f2" in the collection that held "f1" and skipped
\* "f1b" as a duplicate of the stored "f1", each after one answered query that
\* returned the single document "f1"
C32_Witness ==
    /\ \E i \in 1..Len(last.add_calls) :
          /\ last.add_calls[i].text = "f2"
          /\ last.add_calls[i].result = "DOC_ID"
          /\ last.add_calls[i].before = <<"f1">>
          /\ Len(last.add_calls[i].queries) = 1
          /\ last.add_calls[i].queries[1].documents = <<"f1">>
    /\ \E i \in 1..Len(last.add_calls) :
          /\ last.add_calls[i].text = "f1b"
          /\ last.add_calls[i].result = "DUPLICATE_SKIPPED"
          /\ Len(last.add_calls[i].queries) = 1
          /\ last.add_calls[i].queries[1].n_results = 1
          /\ last.add_calls[i].queries[1].documents = <<"f1">>
====
